---- MODULE Spec2Model ----
(***************************************************************************)
(* ExoMapVisualizer (src/src/main.rs): the level-geometry parser, the      *)
(* coordinate transform and the run of main that loads a level and draws   *)
(* it.                                                                     *)
(*                                                                         *)
(* Text is a sequence of one-character strings, so that splitting,         *)
(* stripping and number parsing are computed character by character the    *)
(* way str::split, str::replace and str::parse compute them.               *)
(* Numbers keep their width: i32 is an integer in I32Min..I32Max, u32 is   *)
(* a pair of 16-bit limbs <<hi, lo>>, and an f32 is kept as its sign and   *)
(* the integer part of its magnitude (the only uses of a float in the      *)
(* program are unary minus and `as i32`).                                  *)
(***************************************************************************)
EXTENDS Integers, Sequences, FiniteSets

VARIABLES
    overflow_checks, \* build profile: TRUE = overflow checks on (debug), FALSE = wrapping (release)
    pc,              \* position in main / read_files
    args_len,        \* args.len() in main
    dir_kind,        \* what the directory path resolves to, once checked
    info_kind,       \* what <dir>/collision_info.txt resolves to, once checked
    polygons_kind,   \* what <dir>/polygons.txt resolves to, once checked
    info_lines,      \* read_lines(collision_info.txt), once read
    polygon_lines,   \* read_lines(polygons.txt), once read
    files_read,      \* which of the two files were read so far
    size_pair,       \* get_metadata's first pair
    offset_pair,     \* get_metadata's second pair
    polygon_list,    \* the polygons collected so far / bound in main
    level_returned,  \* read_files has returned to main
    usage_printed,   \* the usage line was printed
    canvas,          \* "none", or the state of the display surface
    drawn,           \* the draw calls made on the canvas, in order
    frames,          \* passes of the event loop
    panic,           \* the panic that ended the run, if any
    unit_fn,         \* unit harness: the function under test
    in_string,       \* unit harness: its string argument
    in_pairs,        \* unit harness: the pairs the line was written from
    in_type,         \* unit harness: the numeric type requested from get_pair
    in_offset,       \* unit harness: the offset pair argument
    ret              \* unit harness: what the call returned

vars == <<overflow_checks, pc, args_len, dir_kind, info_kind, polygons_kind,
          info_lines, polygon_lines, files_read, size_pair, offset_pair,
          polygon_list, level_returned, usage_printed, canvas, drawn, frames,
          panic, unit_fn, in_string, in_pairs, in_type, in_offset, ret>>

(***************************************************************************)
(* Bounds of the model.                                                    *)
(***************************************************************************)
MaxArgsLen == 3
MaxInfoLines == 3
MaxLines == 2
MaxPairs == 3
MaxStrLen == 5
MaxFrames == 2

(***************************************************************************)
(* Machine integers.                                                       *)
(***************************************************************************)
I32Max == 2147483647
I32Min == -I32Max - 1
Limb == 2^16
Two23 == 2^23
Two24 == 2^24

(***************************************************************************)
(* Characters and text.                                                    *)
(***************************************************************************)
DigitSeq == <<"0", "1", "2", "3", "4", "5", "6", "7", "8", "9">>
Digits == {DigitSeq[i] : i \in 1..10}
DigitVal(c) == (CHOOSE i \in 1..10 : DigitSeq[i] = c) - 1

IsPrefix(p, s) == Len(s) >= Len(p) /\ SubSeq(s, 1, Len(p)) = p
Drop(s, n) == SubSeq(s, n + 1, Len(s))

CommaSpace == <<",", " ">>
PairBoundary == <<")", ",", " ", "(">>

\* str::split(pattern): the pieces between the non-overlapping matches of the
\* pattern, scanning left to right; k matches give k + 1 pieces, so the
\* empty string gives one empty piece.
RECURSIVE SplitAcc(_, _, _)
SplitAcc(s, sep, cur) ==
    IF s = <<>> THEN <<cur>>
    ELSE IF IsPrefix(sep, s) THEN <<cur>> \o SplitAcc(Drop(s, Len(sep)), sep, <<>>)
    ELSE SplitAcc(Tail(s), sep, Append(cur, Head(s)))

Split(s, sep) == SplitAcc(s, sep, <<>>)

\* str::replace(c, ""): every occurrence of the character removed.
RemoveAll(s, c) == SelectSeq(s, LAMBDA x : x # c)

(***************************************************************************)
(* str::parse::<T>() for the three numeric types the program asks for.     *)
(* A parse result is [ok, val]; val is 0 when the parse fails.             *)
(***************************************************************************)
ParseFail == [ok |-> FALSE, val |-> 0]
ParseOk(v) == [ok |-> TRUE, val |-> v]

AllDigits(s) == \A i \in 1..Len(s) : s[i] \in Digits

\* u32: an optional "+", then one or more digits; a "-" is an invalid digit;
\* a value above u32::MAX overflows.  The value is <<hi, lo>> in 16-bit limbs.
RECURSIVE AccU32(_, _, _)
AccU32(s, hi, lo) ==
    IF s = <<>> THEN ParseOk(<<hi, lo>>)
    ELSE LET lo2 == lo * 10 + DigitVal(Head(s))
             hi2 == hi * 10 + (lo2 \div Limb)
         IN  IF hi2 >= Limb THEN ParseFail
             ELSE AccU32(Tail(s), hi2, lo2 % Limb)

ParseU32(s) ==
    LET digits == IF s # <<>> /\ Head(s) = "+" THEN Tail(s) ELSE s
    IN  IF digits = <<>> \/ ~AllDigits(digits) THEN ParseFail
        ELSE AccU32(digits, 0, 0)

\* i32: an optional "+" or "-", then one or more digits; the value is
\* accumulated towards its sign, so that "-2147483648" parses.
RECURSIVE AccPos(_, _)
AccPos(s, acc) ==
    IF s = <<>> THEN ParseOk(acc)
    ELSE LET d == DigitVal(Head(s))
         IN  IF acc > I32Max \div 10 \/ (acc = I32Max \div 10 /\ d > I32Max % 10)
             THEN ParseFail
             ELSE AccPos(Tail(s), acc * 10 + d)

RECURSIVE AccNeg(_, _)
AccNeg(s, acc) ==
    IF s = <<>> THEN ParseOk(acc)
    ELSE LET d == DigitVal(Head(s))
         IN  IF acc < -(I32Max \div 10) \/ (acc = -(I32Max \div 10) /\ d > (I32Max % 10) + 1)
             THEN ParseFail
             ELSE AccNeg(Tail(s), acc * 10 - d)

ParseI32(s) ==
    LET signed == s # <<>> /\ Head(s) \in {"+", "-"}
        digits == IF signed THEN Tail(s) ELSE s
    IN  IF digits = <<>> \/ ~AllDigits(digits) THEN ParseFail
        ELSE IF signed /\ Head(s) = "-" THEN AccNeg(digits, 0)
        ELSE AccPos(digits, 0)

\* f32 over the characters of this model (digits, sign, point; no exponent,
\* "inf" or "nan" can be written with them): an optional sign, then digits
\* with at most one point and at least one digit.  The decimal is rounded to
\* the nearest f32 (24-bit significand, ties to even); what is kept of the
\* result is [neg, mag, over]: its sign, the integer part of its magnitude,
\* and whether that magnitude is 2^31 or more (mag is then I32Max).
\* The fraction is read from at most nine digits.
RECURSIVE AccMag(_, _)
AccMag(s, acc) ==
    IF s = <<>> THEN [mag |-> acc, over |-> FALSE]
    ELSE LET d == DigitVal(Head(s))
         IN  IF acc > I32Max \div 10 \/ (acc = I32Max \div 10 /\ d > I32Max % 10)
             THEN [mag |-> I32Max, over |-> TRUE]
             ELSE AccMag(Tail(s), acc * 10 + d)

RECURSIVE AccFrac(_, _)
AccFrac(s, acc) == IF s = <<>> THEN acc ELSE AccFrac(Tail(s), acc * 10 + DigitVal(Head(s)))

\* floor(log2(m)) for m >= 1, and -1 for m = 0 (a magnitude in [0.5, 1)).
RECURSIVE Log2(_)
Log2(m) == IF m = 0 THEN -1 ELSE IF m = 1 THEN 0 ELSE 1 + Log2(m \div 2)

\* The integer part of the f32 nearest to m + num / 10^digs, for 0 <= m <= I32Max.
Finite(m) == [mag |-> m, over |-> FALSE]

\* m >= 2^24: the floats around m are the multiples of q = 2^(e - 23) >= 2;
\* base is the one at or below m and r = m - base
RoundAbove(base, r, q, num) ==
    IF \/ (2 * r) > q
       \/ 2 * r = q /\ num > 0
       \/ 2 * r = q /\ num = 0 /\ (base \div q) % 2 = 1
    THEN (IF base > I32Max - q THEN [mag |-> I32Max, over |-> TRUE] ELSE Finite(base + q))
    ELSE Finite(base)

\* 2^23 <= m < 2^24: the floats around m are the integers
RoundUnit(m, num, scale) ==
    IF (2 * num) > scale \/ (2 * num = scale /\ m % 2 = 1) THEN Finite(m + 1) ELSE Finite(m)

\* m < 2^23: the floats around m are 2^(1-t) apart, t = 24 - e, and the value
\* rounds up to m + 1 iff 1 - fraction <= 2^-t
RoundBelow(m, num, scale, half) ==
    IF num > 0 /\ half <= scale /\ scale - num <= (scale \div half)
    THEN Finite(m + 1)
    ELSE Finite(m)

RoundF32At(m, num, digs, e) ==
    IF m >= Two24 THEN RoundAbove(m - (m % 2^(e - 23)), m % 2^(e - 23), 2^(e - 23), num)
    ELSE IF m >= Two23 THEN RoundUnit(m, num, 10^digs)
    ELSE RoundBelow(m, num, 10^digs, 2^(24 - e))

RoundF32(m, num, digs) == RoundF32At(m, num, digs, Log2(m))

F32Value(neg, r) == ParseOk([neg |-> neg, mag |-> r.mag, over |-> r.over])

F32Rounded(neg, whole, frac) ==
    IF whole.over THEN F32Value(neg, whole)
    ELSE F32Value(neg, RoundF32(whole.mag, AccFrac(frac, 0), Len(frac)))

F32Digits(neg, int, frac) ==
    IF ~AllDigits(int) \/ ~AllDigits(frac) \/ (int = <<>> /\ frac = <<>>)
    THEN ParseFail
    ELSE F32Rounded(neg, AccMag(int, 0), frac)

F32Parts(neg, parts) ==
    IF Len(parts) > 2 THEN ParseFail
    ELSE F32Digits(neg, parts[1], IF Len(parts) = 2 THEN parts[2] ELSE <<>>)

ParseF32(s) ==
    IF s # <<>> /\ Head(s) \in {"+", "-"}
    THEN F32Parts(Head(s) = "-", Split(Tail(s), <<".">>))
    ELSE F32Parts(FALSE, Split(s, <<".">>))

\* <str as FromStr>::parse for the type named by any::type_name::<T>().
Parse(s, type) ==
    CASE type = "u32" -> ParseU32(s)
      [] type = "i32" -> ParseI32(s)
      [] type = "f32" -> ParseF32(s)

(***************************************************************************)
(* Panics and results.  Every panic is a record of the same shape; a       *)
(* result is [ok, val, err].                                               *)
(***************************************************************************)
NoErr == [kind |-> "none", role |-> "", side |-> "", text |-> <<>>, type |-> ""]

\* "`{}` does not exist." / "is not a directory." / "is not a file."
PathError(role, what) ==
    [kind |-> "PathError", role |-> role, side |-> "", text |-> <<>>, type |-> what]
\* fs::read_to_string(path).unwrap()
ReadError(role) ==
    [kind |-> "ReadError", role |-> role, side |-> "", text |-> <<>>, type |-> ""]
\* "`{}` does not have exactly two lines."
StructureError ==
    [kind |-> "StructureError", role |-> "info", side |-> "", text |-> <<>>, type |-> ""]
\* "The size parameter (first line in `{}`) is not a pair", "The offset
\* parameter (second line in `{}`) is not a pair", "A polygon contains an
\* invalid pair \"{}\"": the message the caller hands to get_pair.
FormatError(role, text) ==
    [kind |-> "FormatError", role |-> role, side |-> "", text |-> text, type |-> ""]
\* "The x {purpose} \"{text}\" is not a valid {type}."
ConversionError(side, purpose, text, type) ==
    [kind |-> "ConversionError", role |-> purpose, side |-> side, text |-> text, type |-> type]
\* "attempt to add with overflow" (builds with overflow checks)
OverflowPanic ==
    [kind |-> "Overflow", role |-> "coordinate", side |-> "", text |-> <<>>, type |-> "i32"]
\* "index out of bounds"
IndexPanic(role) ==
    [kind |-> "IndexOutOfBounds", role |-> role, side |-> "", text |-> <<>>, type |-> ""]
\* an unwrap() of a failed SDL call
SdlError(role) ==
    [kind |-> "SdlError", role |-> role, side |-> "", text |-> <<>>, type |-> ""]

Ok(v) == [ok |-> TRUE, val |-> v, err |-> NoErr]
Fail(e) == [ok |-> FALSE, val |-> <<>>, err |-> e]

(***************************************************************************)
(* get_pair                                                                *)
(***************************************************************************)
\* the returned tuple: x is parsed (and unwrapped) before y
ParsedPair(x, y, pair_strings, purpose_string, type) ==
    IF ~x.ok THEN Fail(ConversionError("x", purpose_string, pair_strings[1], type))
    ELSE IF ~y.ok THEN Fail(ConversionError("y", purpose_string, pair_strings[2], type))
    ELSE Ok(<<x.val, y.val>>)

\* get_pair with `pair_strings.len() < 2` for its length test
SplitPairAtLeastTwo(pair_strings, list_error, purpose_string, type) ==
    IF Len(pair_strings) < 2 THEN Fail(list_error)
    ELSE ParsedPair(Parse(pair_strings[1], type), Parse(pair_strings[2], type),
                    pair_strings, purpose_string, type)

SplitPair(pair_strings, list_error, purpose_string, type) ==
    IF Len(pair_strings) # 2 THEN Fail(list_error)
    ELSE ParsedPair(Parse(pair_strings[1], type), Parse(pair_strings[2], type),
                    pair_strings, purpose_string, type)

get_pair(string, list_error, purpose_string, type) ==
    SplitPair(Split(string, CommaSpace), list_error, purpose_string, type)

(***************************************************************************)
(* get_metadata, on the lines read from the file                           *)
(***************************************************************************)
\* the returned tuple: the size pair is parsed before the offset pair
MetadataPairs(size, offset) ==
    IF ~size.ok THEN size
    ELSE IF ~offset.ok THEN offset
    ELSE Ok(<<size.val, offset.val>>)

\* get_metadata parsing the size line before it tests the line count
get_metadata_parse_first(info) ==
    IF info = <<>> THEN Fail(StructureError)
    ELSE MetadataPairs(get_pair(info[1], FormatError("size", <<>>), "size", "u32"),
                       IF Len(info) # 2 THEN Fail(StructureError)
                       ELSE get_pair(info[2], FormatError("offset", <<>>), "offset", "i32"))

get_metadata(info) ==
    IF Len(info) # 2 THEN Fail(StructureError)
    ELSE MetadataPairs(get_pair(info[1], FormatError("size", <<>>), "size", "u32"),
                       get_pair(info[2], FormatError("offset", <<>>), "offset", "i32"))

(***************************************************************************)
(* get_polygon_point                                                       *)
(***************************************************************************)
\* -f on a float
NegF32(f) == [f EXCEPT !.neg = ~f.neg]

\* `f as i32`: truncation toward zero, saturating at the ends of i32
AsI32(f) ==
    IF f.over THEN (IF f.neg THEN I32Min ELSE I32Max)
    ELSE IF f.neg THEN -f.mag ELSE f.mag

\* whether a + b leaves i32
AddOverflows(a, b) ==
    \/ b > 0 /\ a > I32Max - b
    \/ b < 0 /\ a < I32Min - b

\* a + b reduced modulo 2^32 into i32
WrappingAdd(a, b) ==
    IF b > 0 /\ a > I32Max - b THEN (a - I32Max - 1) + (b - I32Max - 1)
    ELSE IF b < 0 /\ a < I32Min - b THEN (a + I32Max + 1) + (b + I32Max + 1)
    ELSE a + b

\* i32 `+`: a panic with overflow checks on, two's complement wrapping with them off
AddI32(a, b, checks) ==
    IF AddOverflows(a, b) /\ checks THEN Fail(OverflowPanic)
    ELSE Ok(WrappingAdd(a, b))

\* Point::new(x, y): the x sum is computed before the y sum
NewPoint(x, y) ==
    IF ~x.ok THEN x
    ELSE IF ~y.ok THEN y
    ELSE Ok(<<x.val, y.val>>)

\* Point::new(float_pair.0 as i32 + offset_pair.0, -float_pair.1 as i32 + offset_pair.1)
PointOfPair(float_pair, offset, checks) ==
    IF ~float_pair.ok THEN float_pair
    ELSE NewPoint(AddI32(AsI32(float_pair.val[1]), offset[1], checks),
                  AddI32(AsI32(NegF32(float_pair.val[2])), offset[2], checks))

get_polygon_point(string, offset, checks) ==
    PointOfPair(get_pair(string, FormatError("polygon", string), "coordinate", "f32"),
                offset, checks)

(***************************************************************************)
(* get_polygon                                                             *)
(***************************************************************************)
\* point_strings after the first and the last entry were replaced: fixed_last
\* is computed from the entry as split, and is the later of the two stores.
FixFirstAndLast(split, last_index, fixed_first, fixed_last) ==
    [[split EXCEPT ![1] = fixed_first] EXCEPT ![last_index] = fixed_last]

FixedStrings(split) ==
    FixFirstAndLast(split, Len(split), RemoveAll(split[1], "("),
                    RemoveAll(split[Len(split)], ")"))

point_strings(string) == FixedStrings(Split(string, PairBoundary))

\* iter().map(get_polygon_point).collect(): in order, ending at the first panic
RECURSIVE MapPoints(_, _, _, _)
RECURSIVE Collect(_, _, _, _, _)
Collect(p, rest, offset, checks, done) ==
    IF ~p.ok THEN p
    ELSE MapPoints(rest, offset, checks, Append(done, p.val))

MapPoints(strings, offset, checks, done) ==
    IF strings = <<>> THEN Ok(done)
    ELSE Collect(get_polygon_point(Head(strings), offset, checks), Tail(strings),
                 offset, checks, done)

\* get_polygon mapping the strings from the last to the first
RECURSIVE Reverse(_)
Reverse(q) == IF q = <<>> THEN <<>> ELSE Append(Reverse(Tail(q)), Head(q))

get_polygon_reversed(string, offset, checks) ==
    MapPoints(Reverse(point_strings(string)), offset, checks, <<>>)

\* get_polygon dropping the strings that are no point (a filter_map)
RECURSIVE KeepPoints(_, _, _, _)
RECURSIVE Keep(_, _, _, _, _)
Keep(p, rest, offset, checks, done) ==
    IF ~p.ok THEN KeepPoints(rest, offset, checks, done)
    ELSE KeepPoints(rest, offset, checks, Append(done, p.val))

KeepPoints(strings, offset, checks, done) ==
    IF strings = <<>> THEN Ok(done)
    ELSE Keep(get_polygon_point(Head(strings), offset, checks), Tail(strings),
              offset, checks, done)

get_polygon_skip_invalid(string, offset, checks) ==
    KeepPoints(point_strings(string), offset, checks, <<>>)

get_polygon(string, offset, checks) ==
    MapPoints(point_strings(string), offset, checks, <<>>)

(***************************************************************************)
(* Input text.  A file is the sequence of its lines (what read_lines       *)
(* returns); a polygon line is written as the file format says, its pairs  *)
(* in parentheses and joined by ", ".                                      *)
(***************************************************************************)
PairText(a, b) == a \o CommaSpace \o b
Paren(t) == <<"(">> \o t \o <<")">>

RECURSIVE LineText(_)
LineText(pairs) ==
    IF pairs = <<>> THEN <<>>
    ELSE IF Len(pairs) = 1 THEN Paren(PairText(pairs[1][1], pairs[1][2]))
    ELSE Paren(PairText(pairs[1][1], pairs[1][2])) \o CommaSpace \o LineText(Tail(pairs))

SeqsUpTo(S, n) == UNION {[1..k -> S] : k \in 0..n}

T0 == <<"0">>
T1 == <<"1">>
T2 == <<"2">>
T3 == <<"3">>
T4 == <<"4">>
T7 == <<"7">>
T10 == <<"1", "0">>
T600 == <<"6", "0", "0">>
T800 == <<"8", "0", "0">>
TNeg5 == <<"-", "5">>
TBig == <<"2", "0", "0", "0", "0", "0", "0", "0", "0", "0">>
TU32Max == <<"4", "2", "9", "4", "9", "6", "7", "2", "9", "5">>
Tabc == <<"a", "b", "c">>
Tcb == <<"c", "b">>

\* lines a metadata file may hold: pairs valid as size, as offset, as both or
\* as neither, and lines that are no pair
InfoLineSet ==
    { PairText(T800, T600), PairText(T0, T0), PairText(TNeg5, T7),
      PairText(TBig, T0), PairText(TU32Max, T1), PairText(Tabc, T1),
      PairText(T1, Tabc), T800, <<>>, PairText(T1, T2) \o CommaSpace \o T3 }

InfoFiles == SeqsUpTo(InfoLineSet, MaxInfoLines)

\* lines a polygon file may hold
SpecExampleLine == LineText(<< <<T0, T0>>, <<T1, T2>>, <<T3, T4>> >>)
EndToEndLine == LineText(<< <<T0, T0>>, <<T10, T0>>, <<T10, T10>>, <<T0, T10>> >>)
SinglePairLine == LineText(<< <<T1, T2>> >>)
EmptyLine == <<>>
BadTokenLine == LineText(<< <<Tabc, T1>>, <<T2, T3>> >>)
BigLine == LineText(<< <<TBig, T0>>, <<T1, T1>> >>)

PolygonLineSet ==
    { SpecExampleLine, EndToEndLine, SinglePairLine, EmptyLine, BadTokenLine, BigLine }

PolygonFiles == SeqsUpTo(PolygonLineSet, MaxLines)

\* what a path may resolve to: nothing, a directory, a regular file, or
\* something that is neither (a socket, a device)
PathKinds == {"missing", "dir", "file", "other"}

\* a file as read_to_string finds it
FilesOf(contents) ==
    {[readable |-> FALSE, lines |-> <<>>]} \cup {[readable |-> TRUE, lines |-> c] : c \in contents}

(***************************************************************************)
(* The run of main.                                                        *)
(***************************************************************************)
NotCalled == [ok |-> FALSE, val |-> <<>>, err |-> NoErr]

HarnessIdle ==
    /\ unit_fn = "none"
    /\ in_string = <<>>
    /\ in_pairs = <<>>
    /\ in_type = ""
    /\ in_offset = <<0, 0>>
    /\ ret = NotCalled

Init ==
    /\ overflow_checks \in BOOLEAN
    /\ args_len \in 0..MaxArgsLen
    /\ pc = "start"
    /\ dir_kind = "unchecked"
    /\ info_kind = "unchecked"
    /\ polygons_kind = "unchecked"
    /\ info_lines = <<>>
    /\ polygon_lines = <<>>
    /\ files_read = {}
    /\ size_pair = <<>>
    /\ offset_pair = <<>>
    /\ polygon_list = <<>>
    /\ level_returned = FALSE
    /\ usage_printed = FALSE
    /\ canvas = "none"
    /\ drawn = <<>>
    /\ frames = 0
    /\ panic = NoErr
    /\ HarnessIdle

harness_vars == <<unit_fn, in_string, in_pairs, in_type, in_offset, ret>>
fs_vars == <<dir_kind, info_kind, polygons_kind>>
file_vars == <<info_lines, polygon_lines, files_read>>
level_vars == <<size_pair, offset_pair, polygon_list, level_returned>>
display_vars == <<canvas, drawn, frames>>

\* panic!(..): the run ends with the message
Panic(e) == pc' = "panicked" /\ panic' = e

\* main with `args.len() < 2` for its argument test
MainArgsFewerThanTwo ==
    /\ pc = "start"
    /\ IF args_len < 2
       THEN IF args_len = 0
            THEN Panic(IndexPanic("args")) /\ UNCHANGED usage_printed
            ELSE usage_printed' = TRUE /\ pc' = "done" /\ UNCHANGED panic
       ELSE pc' = "ensure_dir" /\ UNCHANGED <<usage_printed, panic>>
    /\ UNCHANGED <<overflow_checks, args_len, fs_vars, file_vars, level_vars,
                   display_vars, harness_vars>>

\* main, lines 131-141: the argument count
MainArgs ==
    /\ pc = "start"
    /\ IF args_len # 2
       THEN IF args_len = 0
            THEN Panic(IndexPanic("args")) /\ UNCHANGED usage_printed
            ELSE usage_printed' = TRUE /\ pc' = "done" /\ UNCHANGED panic
       ELSE pc' = "ensure_dir" /\ UNCHANGED <<usage_printed, panic>>
    /\ UNCHANGED <<overflow_checks, args_len, fs_vars, file_vars, level_vars,
                   display_vars, harness_vars>>

\* ensure_dir(dir_path)
EnsureDir ==
    /\ pc = "ensure_dir"
    /\ \E kind \in PathKinds :
          /\ dir_kind' = kind
          /\ IF kind = "missing" THEN Panic(PathError("dir", "does not exist"))
             ELSE IF kind # "dir" THEN Panic(PathError("dir", "is not a directory"))
             ELSE pc' = "ensure_info" /\ UNCHANGED panic
    /\ UNCHANGED <<overflow_checks, args_len, info_kind, polygons_kind, file_vars,
                   level_vars, usage_printed, display_vars, harness_vars>>

\* ensure_file(path)
EnsureFileOutcome(kind, role, next) ==
    IF kind = "missing" THEN Panic(PathError(role, "does not exist"))
    ELSE IF kind # "file" THEN Panic(PathError(role, "is not a file"))
    ELSE pc' = next /\ UNCHANGED panic

\* ensure_file(info_path)
EnsureInfoFile ==
    /\ pc = "ensure_info"
    /\ \E kind \in PathKinds :
          /\ info_kind' = kind
          /\ EnsureFileOutcome(kind, "info", "ensure_polygons")
    /\ UNCHANGED <<overflow_checks, args_len, dir_kind, polygons_kind, file_vars,
                   level_vars, usage_printed, display_vars, harness_vars>>

\* ensure_file(polygons_path)
EnsurePolygonsFile ==
    /\ pc = "ensure_polygons"
    /\ \E kind \in PathKinds :
          /\ polygons_kind' = kind
          /\ EnsureFileOutcome(kind, "polygons", "get_metadata")
    /\ UNCHANGED <<overflow_checks, args_len, dir_kind, info_kind, file_vars,
                   level_vars, usage_printed, display_vars, harness_vars>>

\* the binding of get_metadata's tuple, or its panic
BindMetadata(m) ==
    IF ~m.ok
    THEN Panic(m.err) /\ UNCHANGED <<size_pair, offset_pair>>
    ELSE /\ size_pair' = m.val[1]
         /\ offset_pair' = m.val[2]
         /\ pc' = "get_polygons"
         /\ UNCHANGED panic

\* let (size_pair, offset_pair) = get_metadata(info_path)
GetMetadata ==
    /\ pc = "get_metadata"
    /\ \E file \in FilesOf(InfoFiles) :
          /\ files_read' = files_read \cup {"info"}
          /\ info_lines' = file.lines
          /\ IF ~file.readable
             THEN Panic(ReadError("info")) /\ UNCHANGED <<size_pair, offset_pair>>
             ELSE BindMetadata(get_metadata(file.lines))
    /\ UNCHANGED <<overflow_checks, args_len, fs_vars, polygon_lines, polygon_list,
                   level_returned, usage_printed, display_vars, harness_vars>>

\* get_polygons: read_lines(path)
ReadPolygonLines ==
    /\ pc = "get_polygons"
    /\ \E file \in FilesOf(PolygonFiles) :
          /\ files_read' = files_read \cup {"polygons"}
          /\ polygon_lines' = file.lines
          /\ IF ~file.readable
             THEN Panic(ReadError("polygons"))
             ELSE pc' = "get_polygon" /\ UNCHANGED panic
    /\ UNCHANGED <<overflow_checks, args_len, fs_vars, info_lines, level_vars,
                   usage_printed, display_vars, harness_vars>>

\* a line that fails leaves an empty polygon and the loading goes on
CollectPolygonLenient(polygon) ==
    /\ polygon_list' = Append(polygon_list, polygon.val)
    /\ UNCHANGED <<pc, panic>>

\* the polygon joins the front of the collected vector
CollectPolygonFront(polygon) ==
    IF ~polygon.ok
    THEN Panic(polygon.err) /\ UNCHANGED polygon_list
    ELSE /\ polygon_list' = <<polygon.val>> \o polygon_list
         /\ UNCHANGED <<pc, panic>>

\* the polygon joins the collected vector, or its panic ends the run
CollectPolygon(polygon) ==
    IF ~polygon.ok
    THEN Panic(polygon.err) /\ UNCHANGED polygon_list
    ELSE /\ polygon_list' = Append(polygon_list, polygon.val)
         /\ UNCHANGED <<pc, panic>>

\* get_polygons: one step of .iter().map(|x| get_polygon(x, offset_pair)).collect()
GetPolygonOfNextLine ==
    /\ pc = "get_polygon"
    /\ Len(polygon_list) < Len(polygon_lines)
    /\ CollectPolygon(get_polygon(polygon_lines[Len(polygon_list) + 1], offset_pair,
                                  overflow_checks))
    /\ UNCHANGED <<overflow_checks, args_len, fs_vars, file_vars, size_pair,
                   offset_pair, level_returned, usage_printed, display_vars,
                   harness_vars>>

\* read_files returns (polygons, size_pair) to main
ReadFilesReturn ==
    /\ pc = "get_polygon"
    /\ Len(polygon_list) = Len(polygon_lines)
    /\ level_returned' = TRUE
    /\ pc' = "init_sdl2"
    /\ UNCHANGED <<overflow_checks, args_len, fs_vars, file_vars, size_pair,
                   offset_pair, polygon_list, usage_printed, display_vars, panic,
                   harness_vars>>

\* init_sdl2(dimensions): every step of it is unwrapped
InitSdl2 ==
    /\ pc = "init_sdl2"
    /\ \E sdl_ok \in BOOLEAN :
          IF sdl_ok
          THEN canvas' = "created" /\ pc' = "set_draw_color" /\ UNCHANGED panic
          ELSE Panic(SdlError("init")) /\ UNCHANGED canvas
    /\ UNCHANGED <<overflow_checks, args_len, fs_vars, file_vars, level_vars,
                   usage_printed, drawn, frames, harness_vars>>

\* canvas.set_draw_color(Color::RED)
SetDrawColor ==
    /\ pc = "set_draw_color"
    /\ canvas' = "red"
    /\ pc' = "draw"
    /\ UNCHANGED <<overflow_checks, args_len, fs_vars, file_vars, level_vars,
                   usage_printed, drawn, frames, panic, harness_vars>>

\* one pass of `for polygon in polygon_list`: draw_lines, then the closing
\* draw_line(polygon[0], polygon[polygon.len() - 1])
DrawPolygon ==
    /\ pc = "draw"
    /\ Len(drawn) < Len(polygon_list)
    /\ LET polygon == polygon_list[Len(drawn) + 1]
       IN  \E failing \in {"none", "draw_lines", "draw_line"} :
              IF failing = "draw_lines"
              THEN Panic(SdlError("draw_lines")) /\ UNCHANGED drawn
              ELSE IF Len(polygon) = 0
              THEN /\ drawn' = Append(drawn, [lines |-> polygon, closing |-> <<>>])
                   /\ Panic(IndexPanic("polygon"))
              ELSE IF failing = "draw_line"
              THEN /\ drawn' = Append(drawn, [lines |-> polygon, closing |-> <<>>])
                   /\ Panic(SdlError("draw_line"))
              ELSE /\ drawn' = Append(drawn, [lines |-> polygon,
                                              closing |-> <<polygon[1], polygon[Len(polygon)]>>])
                   /\ UNCHANGED <<pc, panic>>
    /\ UNCHANGED <<overflow_checks, args_len, fs_vars, file_vars, level_vars,
                   usage_printed, canvas, frames, harness_vars>>

\* canvas.present()
Present ==
    /\ pc = "draw"
    /\ Len(drawn) = Len(polygon_list)
    /\ canvas' = "presented"
    /\ pc' = "event_loop"
    /\ UNCHANGED <<overflow_checks, args_len, fs_vars, file_vars, level_vars,
                   usage_printed, drawn, frames, panic, harness_vars>>

\* one pass of 'outer: the events polled hold a Quit or they do not; without
\* one the thread sleeps a frame and polls again
EventLoop ==
    /\ pc = "event_loop"
    /\ \E quit \in BOOLEAN :
          IF quit THEN pc' = "done" /\ UNCHANGED frames
          ELSE frames < MaxFrames /\ frames' = frames + 1 /\ UNCHANGED pc
    /\ UNCHANGED <<overflow_checks, args_len, fs_vars, file_vars, level_vars,
                   usage_printed, canvas, drawn, panic, harness_vars>>

Next ==
    \/ MainArgs
    \/ EnsureDir
    \/ EnsureInfoFile
    \/ EnsurePolygonsFile
    \/ GetMetadata
    \/ ReadPolygonLines
    \/ GetPolygonOfNextLine
    \/ ReadFilesReturn
    \/ InitSdl2
    \/ SetDrawColor
    \/ DrawPolygon
    \/ Present
    \/ EventLoop

Spec == Init /\ [][Next]_vars

(***************************************************************************)
(* The parsing functions on their own: one call of get_pair,               *)
(* get_polygon_point or get_polygon on an argument drawn from a bounded    *)
(* set.                                                                    *)
(***************************************************************************)
Types == {"u32", "i32", "f32"}

\* the message and the purpose the program's three callers of get_pair pass
\* with each type
ListErrorOf(type, string) ==
    CASE type = "u32" -> FormatError("size", <<>>)
      [] type = "i32" -> FormatError("offset", <<>>)
      [] type = "f32" -> FormatError("polygon", string)

PurposeOf(type) ==
    CASE type = "u32" -> "size"
      [] type = "i32" -> "offset"
      [] type = "f32" -> "coordinate"

\* every text of at most MaxStrLen characters over a small alphabet, and the
\* lines of the metadata files
PairAlphabet == {",", " ", "1", "-", "a"}
PairStrings == SeqsUpTo(PairAlphabet, MaxStrLen) \cup InfoLineSet

TNeg1 == <<"-", "1">>
T2p9 == <<"2", ".", "9">>
TNeg2p9 == <<"-", "2", ".", "9">>
TNeg0p5 == <<"-", "0", ".", "5">>
TNegBig == <<"-">> \o TBig
TI32Max == <<"2", "1", "4", "7", "4", "8", "3", "6", "4", "7">>
TOdd24 == <<"1", "6", "7", "7", "7", "2", "1", "7">>
TNear23 == <<"8", "3", "8", "8", "6", "0", "7", ".", "9">>
T3e9 == <<"3", "0", "0", "0", "0", "0", "0", "0", "0", "0">>

\* coordinate texts that parse as f32
CoordTokens ==
    { T0, T1, TNeg1, T2p9, TNeg2p9, TNeg0p5, TBig, TNegBig, TI32Max, TOdd24,
      TNear23, T3e9 }

OffsetValues == {0, 7, -5, 2000000000, -2000000000, I32Max, I32Min}

\* the pairs a polygon line is written from: well-formed ones and ones with a
\* component that is no number
GoodPairs == { <<T0, T0>>, <<T1, T2>>, <<T3, T4>>, <<TNeg2p9, T2p9>> }
BadPairs == { <<Tabc, T1>>, <<T1, Tabc>>, <<Tabc, Tcb>> }
LinePairs == GoodPairs \cup BadPairs

\* lines that are not written from pairs in the file format
OddLines ==
    { EmptyLine,
      PairText(T1, T2),
      PairText(T1, T2) \o <<")">>,
      <<"(">> \o PairText(T1, T2),
      Paren(PairText(T1, T2)) \o <<",">> \o Paren(PairText(T3, T4)),
      <<"(">> \o LineText(<< <<T1, T2>>, <<T3, T4>> >>) \o <<")">>,
      <<"(">> \o PairText(T1, T2) \o PairBoundary \o PairText(T3, T4) }

LineOffsets == { <<0, 0>>, <<-5, 7>> }

MainIdle ==
    /\ args_len = 0
    /\ dir_kind = "unchecked"
    /\ info_kind = "unchecked"
    /\ polygons_kind = "unchecked"
    /\ info_lines = <<>>
    /\ polygon_lines = <<>>
    /\ files_read = {}
    /\ size_pair = <<>>
    /\ offset_pair = <<>>
    /\ polygon_list = <<>>
    /\ level_returned = FALSE
    /\ usage_printed = FALSE
    /\ canvas = "none"
    /\ drawn = <<>>
    /\ frames = 0
    /\ panic = NoErr

UnitInitGetPair ==
    /\ unit_fn = "get_pair"
    /\ overflow_checks = FALSE
    /\ in_string \in PairStrings
    /\ in_pairs = <<>>
    /\ in_type \in Types
    /\ in_offset = <<0, 0>>

UnitInitGetPolygonPoint ==
    /\ unit_fn = "get_polygon_point"
    /\ overflow_checks \in BOOLEAN
    /\ in_pairs \in {<< <<a, b>> >> : a \in CoordTokens, b \in CoordTokens}
    /\ in_string = PairText(in_pairs[1][1], in_pairs[1][2])
    /\ in_type = "f32"
    /\ in_offset \in OffsetValues \X OffsetValues

UnitInitGetPolygon ==
    /\ unit_fn = "get_polygon"
    /\ overflow_checks \in BOOLEAN
    /\ in_pairs \in SeqsUpTo(LinePairs, MaxPairs)
    /\ in_string \in (IF in_pairs = <<>> THEN OddLines ELSE {LineText(in_pairs)})
    /\ in_type = "f32"
    /\ in_offset \in LineOffsets

UnitInit ==
    /\ pc = "call"
    /\ MainIdle
    /\ ret = NotCalled
    /\ \/ UnitInitGetPair
       \/ UnitInitGetPolygonPoint
       \/ UnitInitGetPolygon

main_vars == <<overflow_checks, args_len, fs_vars, file_vars, level_vars,
               usage_printed, display_vars, panic>>
argument_vars == <<unit_fn, in_string, in_pairs, in_type, in_offset>>

CallGetPair ==
    /\ pc = "call"
    /\ unit_fn = "get_pair"
    /\ ret' = get_pair(in_string, ListErrorOf(in_type, in_string), PurposeOf(in_type), in_type)
    /\ pc' = "returned"
    /\ UNCHANGED <<main_vars, argument_vars>>

CallGetPolygonPoint ==
    /\ pc = "call"
    /\ unit_fn = "get_polygon_point"
    /\ ret' = get_polygon_point(in_string, in_offset, overflow_checks)
    /\ pc' = "returned"
    /\ UNCHANGED <<main_vars, argument_vars>>

CallGetPolygon ==
    /\ pc = "call"
    /\ unit_fn = "get_polygon"
    /\ ret' = get_polygon(in_string, in_offset, overflow_checks)
    /\ pc' = "returned"
    /\ UNCHANGED <<main_vars, argument_vars>>

UnitNext ==
    \/ CallGetPair
    \/ CallGetPolygonPoint
    \/ CallGetPolygon

UnitSpec == UnitInit /\ [][UnitNext]_vars

(***************************************************************************)
(* Properties.                                                             *)
(***************************************************************************)
\* the number of places where sep occurs in s
Occurrences(s, sep) ==
    Cardinality({i \in 1..(Len(s) - Len(sep) + 1) : SubSeq(s, i, i + Len(sep) - 1) = sep})

HasParen(t) == \E i \in 1..Len(t) : t[i] \in {"(", ")"}
IsNumber(t) == ParseF32(t).ok
GoodPair(p) == IsNumber(p[1]) /\ IsNumber(p[2])

Returned(fn) == pc = "returned" /\ unit_fn = fn

\* the call is get_polygon on a line written from n >= 1 pairs of numbers
WellFormedCall ==
    /\ Returned("get_polygon")
    /\ in_pairs # <<>>
    /\ \A i \in 1..Len(in_pairs) : GoodPair(in_pairs[i])

\* C1: for every line of n >= 1 well-formed parenthesised pairs, n = 1
\* included, every string get_polygon hands to get_polygon_point is a bare
\* "x, y" with no parenthesis, and the call succeeds with exactly n points.
C1_WellFormedLineGivesItsPoints ==
    WellFormedCall =>
        /\ \A i \in 1..Len(point_strings(in_string)) : ~HasParen(point_strings(in_string)[i])
        /\ ret.ok
        /\ Len(ret.val) = Len(in_pairs)

\* The same for the lines of two or more pairs, where it holds.
Aux_TwoOrMorePairsGiveTheirPoints ==
    (WellFormedCall /\ Len(in_pairs) >= 2) =>
        /\ \A i \in 1..Len(point_strings(in_string)) : ~HasParen(point_strings(in_string)[i])
        /\ ret.ok
        /\ Len(ret.val) = Len(in_pairs)

\* the integer a float truncates to, for a float within i32
Trunc(f) == IF f.neg THEN -f.mag ELSE f.mag
\* r is the sum of a and b in the integers
IsSum(r, a, b) == ~AddOverflows(a, b) /\ r = a + b

TruncatedX == Trunc(ParseF32(in_pairs[1][1]).val)
TruncatedY == Trunc(ParseF32(in_pairs[1][2]).val)

\* the call is get_polygon_point on two numbers whose truncations are in i32
PointCall ==
    /\ Returned("get_polygon_point")
    /\ ~ParseF32(in_pairs[1][1]).val.over
    /\ ~ParseF32(in_pairs[1][2]).val.over

\* C2: for every token "x, y" of two numbers and every offset (dx, dy),
\* get_polygon_point returns the point (trunc(x) + dx, -trunc(y) + dy), so that
\* taking (dx, dy) off the result and negating y recovers (trunc(x), trunc(y)).
\* (Stated for the numbers whose truncation is an i32.)
C2_PointIsTruncationPlusOffset ==
    PointCall =>
        /\ ret.ok
        /\ IsSum(ret.val[1], TruncatedX, in_offset[1])
        /\ IsSum(ret.val[2], -TruncatedY, in_offset[2])

\* The same where neither sum leaves i32, where it holds.
Aux_PointWithinI32 ==
    (/\ PointCall
     /\ ~AddOverflows(TruncatedX, in_offset[1])
     /\ ~AddOverflows(-TruncatedY, in_offset[2])) =>
        /\ ret.ok
        /\ ret.val = <<TruncatedX + in_offset[1], (-TruncatedY) + in_offset[2]>>

\* the i-th piece of the line between its "), (" boundaries, without parentheses
BareSegment(i) == RemoveAll(RemoveAll(Split(in_string, PairBoundary)[i], "("), ")")

\* C3: whenever get_polygon returns, it returns as many points as the line has
\* pieces between its "), (" boundaries, and the i-th point is the transform of
\* the i-th piece, left to right; "(0, 0), (1, 2), (3, 4)" with offset (0, 0)
\* gives [(0, 0), (1, -2), (3, -4)].
C3_PointsFollowTheLine ==
    (Returned("get_polygon") /\ ret.ok) =>
        /\ Len(ret.val) = Occurrences(in_string, PairBoundary) + 1
        /\ \A i \in 1..Len(ret.val) :
              ret.val[i] = get_polygon_point(BareSegment(i), in_offset, overflow_checks).val
        /\ in_pairs # <<>> =>
              /\ Len(ret.val) = Len(in_pairs)
              /\ \A i \in 1..Len(in_pairs) :
                    ret.val[i] = get_polygon_point(PairText(in_pairs[i][1], in_pairs[i][2]),
                                                   in_offset, overflow_checks).val
        /\ (in_string = SpecExampleLine /\ in_offset = <<0, 0>>) =>
              ret.val = << <<0, 0>>, <<1, -2>>, <<3, -4>> >>

C3_Witness ==
    /\ Returned("get_polygon")
    /\ in_string = SpecExampleLine
    /\ in_offset = <<0, 0>>
    /\ ret.ok
    /\ ret.val = << <<0, 0>>, <<1, -2>>, <<3, -4>> >>

\* C6: a string that does not hold exactly one ", " makes get_pair fail with
\* the caller's "not a pair" message, before any conversion: it never gives a
\* conversion error or a pair.
C6_NotOneSeparatorIsFormatError ==
    (Returned("get_pair") /\ Occurrences(in_string, CommaSpace) # 1) =>
        /\ ~ret.ok
        /\ ret.err.kind = "FormatError"
        /\ ret.err = ListErrorOf(in_type, in_string)

C6_Witness ==
    /\ Returned("get_pair")
    /\ in_string = PairText(T1, T2) \o CommaSpace \o T3
    /\ in_type = "i32"
    /\ ret = Fail(FormatError("offset", <<>>))

\* the side and the text of the first component of the line that is no number
RECURSIVE FirstBad(_)
FirstBad(pairs) ==
    IF ~IsNumber(pairs[1][1]) THEN <<"x", pairs[1][1]>>
    ELSE IF ~IsNumber(pairs[1][2]) THEN <<"y", pairs[1][2]>>
    ELSE FirstBad(Tail(pairs))

\* the call is get_polygon on a line written from pairs, one of them malformed
MalformedTokenCall ==
    /\ Returned("get_polygon")
    /\ in_pairs # <<>>
    /\ \E i \in 1..Len(in_pairs) : ~GoodPair(in_pairs[i])

\* C7: a polygon line with a malformed coordinate token, such as "(abc, 1)",
\* fails with a conversion error that names the failing side, the bare
\* component ("abc", no parenthesis) and the type; with both components
\* malformed it is the x side.
C7_ConversionErrorNamesTheComponent ==
    MalformedTokenCall =>
        /\ ~ret.ok
        /\ ret.err = ConversionError(FirstBad(in_pairs)[1], "coordinate",
                                     FirstBad(in_pairs)[2], "f32")

\* The same for the lines of two or more pairs, where it holds.
Aux_ConversionErrorOfLongerLines ==
    (MalformedTokenCall /\ Len(in_pairs) >= 2) =>
        /\ ~ret.ok
        /\ ret.err = ConversionError(FirstBad(in_pairs)[1], "coordinate",
                                     FirstBad(in_pairs)[2], "f32")

\* a line from which no pair can be recovered: it holds no ", " at all
NoPair(line) == Occurrences(line, CommaSpace) = 0

\* C4: every polygon of a returned level has at least one point: a line from
\* which no pair can be recovered (an empty line) is rejected, never an empty
\* polygon, and the closing edge is never drawn from an empty point list.
C4_NoEmptyPolygon ==
    /\ \A k \in 1..Len(polygon_list) : Len(polygon_list[k]) >= 1
    /\ \A k \in 1..Len(polygon_list) : ~NoPair(polygon_lines[k])
    /\ level_returned => \A k \in 1..Len(polygon_lines) : ~NoPair(polygon_lines[k])
    /\ \A k \in 1..Len(drawn) : drawn[k].lines # <<>>
    /\ panic # IndexPanic("polygon")

C4_Witness ==
    /\ pc = "panicked"
    /\ polygon_lines = <<SpecExampleLine, EmptyLine>>
    /\ Len(polygon_list) = 1
    /\ panic = FormatError("polygon", EmptyLine)
    /\ canvas = "none"

\* read_files has completed: every path check, the metadata and every line
LevelLoaded ==
    /\ dir_kind = "dir"
    /\ info_kind = "file"
    /\ polygons_kind = "file"
    /\ files_read = {"info", "polygons"}
    /\ get_metadata(info_lines).ok
    /\ Len(polygon_list) = Len(polygon_lines)
    /\ \A k \in 1..Len(polygon_lines) :
          get_polygon(polygon_lines[k], offset_pair, overflow_checks).ok
    /\ level_returned

InputErrors == {"PathError", "StructureError", "FormatError", "ConversionError"}

\* C5: the display surface is created and polygons are drawn only after
\* read_files has completed with every check and every parse successful; a
\* path, structure, format or conversion error ends the run before any of it.
C5_NoPartialSuccess ==
    /\ (canvas # "none" \/ drawn # <<>> \/ pc \in {"init_sdl2", "event_loop"}) => LevelLoaded
    /\ panic.kind \in InputErrors =>
          /\ pc = "panicked"
          /\ ~level_returned
          /\ canvas = "none"
          /\ drawn = <<>>
          /\ frames = 0
    /\ pc = "panicked" => panic # NoErr

C5_Witness ==
    /\ pc = "panicked"
    /\ panic.kind = "ConversionError"
    /\ Len(polygon_list) = 1
    /\ Len(polygon_lines) = 2
    /\ canvas = "none"
    /\ drawn = <<>>

\* the metadata file was read as text
InfoWasRead == "info" \in files_read /\ panic.kind # "ReadError"

\* C8: a metadata file whose line count is not two fails with the structure
\* error whatever its lines hold: the count is tested before either line is
\* parsed, and no size or offset is produced.
C8_WrongLineCountIsStructureError ==
    (InfoWasRead /\ Len(info_lines) # 2) =>
        /\ pc = "panicked"
        /\ panic = StructureError
        /\ size_pair = <<>>
        /\ offset_pair = <<>>

C8_Witness ==
    /\ InfoWasRead
    /\ info_lines = <<PairText(Tabc, T1), T800, PairText(T0, T0)>>
    /\ panic = StructureError

U32(n) == <<n \div Limb, n % Limb>>

\* C9: with valid metadata, the level returned holds the canvas size of the
\* metadata and one polygon per line of the polygon file, the k-th polygon the
\* parse of the k-th line with the metadata's offset applied; a file of no
\* lines gives an empty list and the canvas size all the same.
C9_LevelFollowsTheFiles ==
    /\ level_returned =>
          /\ get_metadata(info_lines).ok
          /\ size_pair = get_pair(info_lines[1], NoErr, "size", "u32").val
          /\ offset_pair = get_pair(info_lines[2], NoErr, "offset", "i32").val
          /\ Len(polygon_list) = Len(polygon_lines)
          /\ \A k \in 1..Len(polygon_lines) :
                polygon_list[k] = get_polygon(polygon_lines[k], offset_pair,
                                              overflow_checks).val
          /\ (/\ info_lines = <<PairText(T800, T600), PairText(T0, T0)>>
              /\ polygon_lines = <<EndToEndLine>>) =>
                /\ size_pair = <<U32(800), U32(600)>>
                /\ polygon_list = << << <<0, 0>>, <<10, 0>>, <<10, -10>>, <<0, -10>> >> >>
    /\ (pc = "get_polygon" /\ polygon_lines = <<>>) =>
          /\ polygon_list = <<>>
          /\ size_pair = get_pair(info_lines[1], NoErr, "size", "u32").val
          /\ ENABLED ReadFilesReturn

C9_Witness ==
    /\ level_returned
    /\ info_lines = <<PairText(T800, T600), PairText(TNeg5, T7)>>
    /\ polygon_lines = <<EndToEndLine, SpecExampleLine>>
    /\ size_pair = <<U32(800), U32(600)>>
    /\ polygon_list = << << <<-5, 7>>, <<5, 7>>, <<5, -3>>, <<-5, -3>> >>,
                         << <<-5, 7>>, <<-4, 5>>, <<-2, 3>> >> >>

====
